---- MODULE Spec2Model ----
\* A model of ocitysmap2/__init__.py: the OCitySMap rendering orchestrator.
\* One OCitySMap instance serves a bounded number of API calls (render() and
\* get_geographic_info()), one at a time.  The collaborators that are not part
\* of the module (psycopg2, cairo, the layout renderer, the street index, the
\* file system) are modelled by their observable effect and may fail at every
\* call the code makes to them.
EXTENDS Integers, Sequences, FiniteSets, TLC

\* ---------------------------------------------------------------- bounds
MaxCalls == 2       \* API calls made on the one OCitySMap instance
MaxFormats == 2     \* longest output_formats list passed to render()
MaxThreads == 2     \* threads that call render() on the instance at once
MaxLookups == 2     \* get_stylesheet_by_name() calls made on the instance

\* ------------------------------------------------------ program constants
DEFAULT_REQUEST_TIMEOUT_MIN == 15
DEFAULT_RENDERING_PNG_DPI == 300
DEFAULT_ZOOM_LEVEL == 16
PT_PER_INCH == 72

\* ------------------------------------------------------------ Python values
\* None is the empty tuple, a present value v is <<v>>.
None == <<>>
Some(v) == <<v>>
NoErr == ""

\* Python truth value of config.osmid (None and 0 are false).
TruthyInt(o) == o # None /\ o[1] # 0
\* Python truth value of an object reference or of a string held as an option
\* (None and the empty string are false).
TruthyObj(o) == o # None
TruthyStr(o) == o # None /\ o[1] # <<>>

\* -------------------------------------------------------------- strings
\* A string is the sequence of its characters; str.lower() maps the ASCII
\* upper-case letters to lower case and leaves every other character alone.
Upper == <<"A","B","C","D","E","F","G","H","I","J","K","L","M",
           "N","O","P","Q","R","S","T","U","V","W","X","Y","Z">>
LowerOf == <<"a","b","c","d","e","f","g","h","i","j","k","l","m",
             "n","o","p","q","r","s","t","u","v","w","x","y","z">>
lower_char(c) ==
  IF \E i \in 1..Len(Upper) : Upper[i] = c
  THEN LowerOf[CHOOSE i \in 1..Len(Upper) : Upper[i] = c]
  ELSE c
lower(s) == [i \in 1..Len(s) |-> lower_char(s[i])]

\* int(s) on a configuration string: an optional sign followed by at least one
\* digit; anything else raises ValueError (returned as None).
Digits == <<"0","1","2","3","4","5","6","7","8","9">>
IsDigit(c) == \E d \in 1..10 : Digits[d] = c
DigitVal(c) == (CHOOSE d \in 1..10 : Digits[d] = c) - 1
RECURSIVE NatOf(_)
NatOf(s) == IF s = <<>> THEN 0
            ELSE 10 * NatOf(SubSeq(s, 1, Len(s) - 1)) + DigitVal(s[Len(s)])
int(s) ==
  LET neg  == s # <<>> /\ s[1] = "-"
      body == IF s # <<>> /\ s[1] \in {"-", "+"} THEN Tail(s) ELSE s
  IN IF body = <<>> \/ \E i \in 1..Len(body) : ~IsDigit(body[i])
     THEN None
     ELSE Some(IF neg THEN 0 - NatOf(body) ELSE NatOf(body))

\* ------------------------------------------------------- configuration
\* The options of the configuration files that the module reads after
\* construction: [datasource] request_timeout and [rendering] png_dpi.  An
\* absent option (ConfigParser.NoOptionError) is None.
\* [rendering] available_stylesheets is a text too: the sequence of its
\* pieces, each a "," or a text without comma.
ConfigFiles ==
  { [request_timeout |-> None,                 png_dpi |-> None,
     available_stylesheets |-> Some(<<"a", ",", "b">>)],
    [request_timeout |-> Some(<<"2","0">>),    png_dpi |-> Some(<<"7","2">>),
     available_stylesheets |-> Some(<<"a", ",", "b">>)],
    [request_timeout |-> Some(<<"a","b","c">>), png_dpi |-> Some(<<"x">>),
     available_stylesheets |-> Some(<<"a", ",", "b">>)] }

\* The stylesheet sections of the configuration files: per section its
\* options name, path and zoom_level (None when the option is absent).
Sections ==
  { [section |-> "a", name |-> Some("Default"), path |-> Some("/a.xml"),
     zoom_level |-> None],
    [section |-> "b", name |-> Some("Alt"), path |-> Some("/b.xml"),
     zoom_level |-> Some(<<"1","7">>)],
    [section |-> "c", name |-> Some("Default"), path |-> Some("/c.xml"),
     zoom_level |-> None],
    [section |-> "d", name |-> Some("Broken"), path |-> None,
     zoom_level |-> None],
    [section |-> "e", name |-> Some("Zoomed"), path |-> Some("/e.xml"),
     zoom_level |-> Some(<<"x">>)] }
\* Configuration files that differ in the stylesheet list.
StyleLists ==
  { None, Some(<<>>), Some(<<"a">>), Some(<<"a", ",", "b">>),
    Some(<<"a", ",", "b", ",", "c">>), Some(<<"c", ",", "a">>),
    Some(<<"b", ",", "c", ",", "a">>), Some(<<"a", ",", "x">>),
    Some(<<"a", ",">>), Some(<<"d">>), Some(<<"b", ",", "e">>) }
StyleConfigFiles ==
  { [request_timeout |-> None, png_dpi |-> None, available_stylesheets |-> l] :
      l \in StyleLists }

\* str.split(','): the texts between the commas.
RECURSIVE split(_)
split(s) ==
  IF s = <<>> THEN <<"">>
  ELSE LET rest == split(Tail(s))
       IN IF s[1] = "," THEN <<"">> \o rest
          ELSE <<s[1] \o rest[1]>> \o Tail(rest)

\* Stylesheet.create_from_config_section(parser, section_name): the
\* Stylesheet, or the exception of a missing section, a missing name or path,
\* or a zoom_level that is no integer.
create_from_config_section(section_name) ==
  LET found == { x \in Sections : x.section = section_name }
  IN IF found = {} THEN [err |-> "NoSectionError", style |-> None]
     ELSE LET x == CHOOSE y \in found : TRUE
          IN IF x.name = None \/ x.path = None
             THEN [err |-> "NoOptionError", style |-> None]
             ELSE IF x.zoom_level # None /\ int(x.zoom_level[1]) = None
             THEN [err |-> "ValueError: invalid literal for int()", style |-> None]
             ELSE [err |-> NoErr,
                   style |-> Some([name |-> x.name[1], path |-> x.path[1],
                                   zoom_level |->
                                     IF x.zoom_level = None THEN DEFAULT_ZOOM_LEVEL
                                     ELSE int(x.zoom_level[1])[1]])]

StylesheetError == "ValueError: OCitySMap configuration does not contain any stylesheet!"

\* Stylesheet.create_all_from_config(parser): the list of Stylesheets in the
\* order of the option, or the first exception.
create_all_from_config(p) ==
  IF p.available_stylesheets = None
  THEN [err |-> "NoOptionError", styles |-> <<>>]
  ELSE IF p.available_stylesheets[1] = <<>>
  THEN [err |-> StylesheetError, styles |-> <<>>]
  ELSE LET names == split(p.available_stylesheets[1])
           made  == [i \in 1..Len(names) |-> create_from_config_section(names[i])]
       IN IF \E i \in 1..Len(made) : made[i].err # NoErr
          THEN [err |-> made[CHOOSE i \in 1..Len(made) :
                               /\ made[i].err # NoErr
                               /\ \A j \in 1..i - 1 : made[j].err = NoErr].err,
                styles |-> <<>>]
          ELSE [err |-> NoErr, styles |-> [i \in 1..Len(made) |-> made[i].style[1]]]

\* ------------------------------------------------- geometry (coords module)
\* A bounding box is a geodetic rectangle; a WKT text is the sequence of its
\* tokens: keywords, parentheses, commas, blanks and "x y" points.
NumRange == 0 - 8 .. 48
PointStr(x, y) == ToString(x) \o " " \o ToString(y)
PointOf(tok) ==
  CHOOSE p \in NumRange \X NumRange : PointStr(p[1], p[2]) = tok
BoundingBox(x1, y1, x2, y2) == [minx |-> x1, miny |-> y1, maxx |-> x2, maxy |-> y2]

\* BoundingBox.as_wkt(with_polygon_statement)
as_wkt(b, with_polygon_statement) ==
  LET ring == << PointStr(b.minx, b.miny), ",", PointStr(b.minx, b.maxy), ",",
                 PointStr(b.maxx, b.maxy), ",", PointStr(b.maxx, b.miny), ",",
                 PointStr(b.minx, b.miny) >>
  IN IF with_polygon_statement
     THEN <<"POLYGON", "(", "(">> \o ring \o <<")", ")">>
     ELSE ring
\* BoundingBox.parse_wkt(wkt): the rectangle spanned by the ring's points.
parse_wkt(wkt) ==
  LET pts == { PointOf(wkt[i]) : i \in { j \in 4..Len(wkt) - 2 : wkt[j] # "," } }
      xs  == { p[1] : p \in pts }
      ys  == { p[2] : p \in pts }
      min(S) == CHOOSE m \in S : \A n \in S : m <= n
      max(S) == CHOOSE m \in S : \A n \in S : m >= n
  IN BoundingBox(min(xs), min(ys), max(xs), max(ys))
\* BoundingBox.create_expanded(dlat, dlong), the margins given in percent.
create_expanded(b, pct_x, pct_y) ==
  LET dx == ((b.maxx - b.minx) * pct_x) \div 100
      dy == ((b.maxy - b.miny) * pct_y) \div 100
  IN BoundingBox(b.minx - dx, b.miny - dy, b.maxx + dx, b.maxy + dy)

\* str.strip(): leading and trailing white space removed.
IsSpace(t) == t \in {" ", "\n"}
RECURSIVE lstrip(_)
lstrip(s) == IF s # <<>> /\ IsSpace(s[1]) THEN lstrip(Tail(s)) ELSE s
RECURSIVE rstrip(_)
rstrip(s) == IF s # <<>> /\ IsSpace(s[Len(s)])
             THEN rstrip(SubSeq(s, 1, Len(s) - 1)) ELSE s
strip(s) == rstrip(lstrip(s))

\* ------------------------------------------------------------ the database
\* planet_osm_polygon, as the query of get_geographic_info() sees it: per row
\* the osm_id, the envelope and the built area as text (NULL is None).
Box1 == BoundingBox(0, 0, 40, 40)
Box2 == BoundingBox(0, 0, 20, 40)
Ring1 == <<"0 0", ",", "40 0", ",", "0 40", ",", "0 0">>
Ring2 == <<"10 10", ",", "20 10", ",", "10 20", ",", "10 10">>
planet_osm_polygon ==
  << [osm_id |-> 1,
      envelope |-> Some(<<" ">> \o as_wkt(Box1, TRUE) \o <<"\n">>),
      area     |-> Some(<<"POLYGON", "(", "(">> \o Ring1 \o <<")", ")", " ">>)],
     [osm_id |-> 2,
      envelope |-> Some(as_wkt(Box2, TRUE)),
      area     |-> None],
     [osm_id |-> 4,
      envelope |-> Some(as_wkt(Box1, TRUE)),
      area     |-> Some(<<"POLYGON", "(", "(">> \o Ring1 \o <<")", ",", "(">>
                        \o Ring2 \o <<")", ")">>)],
     [osm_id |-> 0,
      envelope |-> Some(as_wkt(Box2, TRUE)),
      area     |-> Some(<<"POLYGON", "(", "(">> \o Ring1 \o <<")", ")">>)] >>

\* ------------------------------------------------------ inputs of render()
OsmIds == {None, Some(0), Some(1), Some(2), Some(3), Some(4)}
BoundingBoxes == {None, Some(Box2)}
Languages == {"ar"}
\* RenderingConfiguration: the fields render() reads, and rtl, which it sets.
RenderingConfiguration ==
  [osmid : OsmIds, bounding_box : BoundingBoxes, language : Languages, rtl : {None}]
\* Output format strings a caller may pass.
FormatStrings ==
  { <<"P","N","G">>, <<"P","d","f">>, <<"c","s","v">>, <<"j","p","g">> }
\* The lists of at most n distinct members of S.
RECURSIVE ListsUpTo(_, _)
ListsUpTo(S, n) ==
  IF n = 0 THEN {<<>>}
  ELSE LET shorter == ListsUpTo(S, n - 1)
       IN shorter \cup
          { Append(q[1], q[2]) :
              q \in { r \in shorter \X S :
                        /\ Len(r[1]) = n - 1
                        /\ \A i \in 1..Len(r[1]) : r[1][i] # r[2] } }
FormatLists == ListsUpTo(FormatStrings, MaxFormats)

\* i18n.install_translation(language, locale_path).isrtl()
isrtl(language) == language = "ar"

\* ------------------------------------------------------------------ state
VARIABLES
  parser,          \* self._parser: the options read from the configuration
  db,              \* self.__db: None, or the cached connection
  opened,          \* number of connections psycopg2.connect() has returned
  queries,         \* the connections, as configured when a data query ran on them
  i18n,            \* self._i18n: None, or the installed language
  calls,           \* number of API calls started on this instance
  op,              \* the API call in progress: "", "render", "get_geographic_info"
  pc,              \* position of the call in progress
  arg,             \* the configuration as the caller passed it
  config,          \* the configuration object during the call
  raw_formats,     \* output_formats as the caller passed it
  output_formats,  \* output_formats after line 343
  osmid_geo_info,  \* None, or the (osm_id, envelope, area) row of this call
  tmpdir,          \* None, or the name mkdtemp() returned
  workspace,       \* "absent" or "present": the directory tmpdir on disk
  renderer,        \* what this call has asked of the layout renderer
  polygon,         \* the local variable polygon
  street_index,    \* None, or the arguments StreetIndex was built with
  passes,          \* one record per _render_one() call of this call
  files,           \* the files <file_prefix>.<format> on disk, with their state
  pending,         \* the exception in flight inside the try block
  result,          \* "" while running, "ok", or the exception render() raised
  steps,           \* the external calls of this call, in order
  logged,          \* messages given to the logger at error level
  threads,         \* per thread that is inside _get_db(): its position and
                   \* its local connection
  registry,        \* self.STYLESHEET_REGISTRY
  lookups          \* the get_stylesheet_by_name() calls made, with their results

vars == << parser, db, opened, queries, i18n, calls, op, pc, arg, config,
           raw_formats, output_formats, osmid_geo_info, tmpdir, workspace,
           renderer, polygon, street_index, passes, files, pending, result,
           steps, logged, threads, registry, lookups >>
\* The state that the sequential calls leave alone.
aside == << threads, registry, lookups >>
orchestrator == << parser, db, opened, queries, i18n >>
call_locals == << arg, config, raw_formats, output_formats, osmid_geo_info,
                  tmpdir, workspace, renderer, polygon, street_index, passes,
                  files, pending, result, steps, logged >>

NoConfig == [osmid |-> None, bounding_box |-> None, language |-> "", rtl |-> None]
NoRenderer == [instantiated |-> FALSE, canvas |-> FALSE, actual_bounding_box |-> None,
               shades |-> <<>>, canvas_rendered |-> FALSE]

\* The locals of a call before it starts.
Fresh ==
  /\ arg = NoConfig /\ config = NoConfig
  /\ raw_formats = <<>> /\ output_formats = <<>>
  /\ osmid_geo_info = None /\ tmpdir = None /\ workspace = "absent"
  /\ renderer = NoRenderer /\ polygon = None /\ street_index = None
  /\ passes = <<>> /\ files = {} /\ pending = NoErr /\ result = NoErr
  /\ steps = <<>> /\ logged = {}

Threads == 1..MaxThreads
NoThread == [pc |-> "idle", conn |-> None]

\* OCitySMap.__init__
Init ==
  /\ parser \in ConfigFiles
  /\ db = None /\ opened = 0 /\ queries = {} /\ i18n = None
  /\ calls = 0 /\ op = "" /\ pc = "idle"
  /\ Fresh
  /\ threads = [t \in Threads |-> NoThread]
  /\ registry = create_all_from_config(parser).styles /\ lookups = <<>>

\* ----------------------------------------------------- database connection
\* What the database driver may do during one _get_db() call.
DbOutcomes == {"ok", "connect_fails", "set_client_encoding_fails", "execute_fails"}

\* The timeout in minutes, lines 239-242: the configured integer, or the
\* default when the option is missing or is no integer.
request_timeout ==
  IF parser.request_timeout = None THEN DEFAULT_REQUEST_TIMEOUT_MIN
  ELSE IF int(parser.request_timeout[1]) = None THEN DEFAULT_REQUEST_TIMEOUT_MIN
  ELSE int(parser.request_timeout[1])[1]

\* _set_request_timeout(db, timeout_minutes): the statement timeout of the
\* session in milliseconds.
set_request_timeout(conn, timeout_minutes) ==
  [conn EXCEPT !.statement_timeout = timeout_minutes * 60 * 1000]

\* Lines 225-246: a new connection, configured and then cached.  Gives the new
\* self.__db, the number of connections opened, the connection returned and
\* the exception raised.
connect(outcome) ==
  IF outcome = "connect_fails"
  THEN [db |-> None, opened |-> opened, conn |-> None,
        err |-> "OperationalError", steps |-> <<"connect">>]
  ELSE LET new  == [id |-> opened + 1, client_encoding |-> "default",
                    statement_timeout |-> 0 - 1]
           utf8 == [new EXCEPT !.client_encoding = "utf8"]
       IN IF outcome = "set_client_encoding_fails"
          THEN [db |-> None, opened |-> opened + 1, conn |-> None,
                err |-> "OperationalError", steps |-> <<"connect">>]
          ELSE IF outcome = "execute_fails"
          THEN [db |-> None, opened |-> opened + 1, conn |-> None,
                err |-> "OperationalError", steps |-> <<"connect">>]
          ELSE [db |-> Some(set_request_timeout(utf8, request_timeout)),
                opened |-> opened + 1,
                conn |-> Some(set_request_timeout(utf8, request_timeout)),
                err |-> NoErr, steps |-> <<"connect">>]

\* _get_db() without the test of line 222.
get_db_uncached(outcome) == connect(outcome)

\* _get_db(): the cached connection if there is one, else a new one.
get_db(outcome) ==
  IF db # None
  THEN [db |-> db, opened |-> opened, conn |-> db, err |-> NoErr, steps |-> <<>>]
  ELSE connect(outcome)

\* -------------------------------------------------------- geographic resolver
\* select ... from planet_osm_polygon where osm_id in (osmids)
select(osmids) ==
  SelectSeq(planet_osm_polygon, LAMBDA row : \E i \in 1..Len(osmids) : osmids[i] = row.osm_id)

\* get_geographic_info(osmids): gives the new connection state, the queries
\* run, and either the list of (osm_id, envelope, area) or the exception.
get_geographic_info(osmids, outcome, query_ok) ==
  LET same == [db |-> db, opened |-> opened, queries |-> queries, steps |-> <<>>]
  IN IF \E i \in 1..Len(osmids) : osmids[i] = None
     THEN \* line 275: int(None)
          same @@ [err |-> "TypeError", value |-> <<>>]
     ELSE LET ids == [i \in 1..Len(osmids) |-> osmids[i][1]]
              got == get_db(outcome)
              con == [db |-> got.db, opened |-> got.opened,
                      queries |-> queries, steps |-> got.steps]
          IN IF got.err # NoErr
             THEN con @@ [err |-> got.err, value |-> <<>>]
             ELSE LET ran == [con EXCEPT !.queries = queries \cup {got.conn[1]},
                                         !.steps = got.steps \o <<"query">>]
                      records == select(ids)
                  IN IF ~query_ok
                     THEN ran @@ [err |-> "DatabaseError", value |-> <<>>]
                     ELSE IF \E i \in 1..Len(records) :
                               records[i].envelope = None \/ records[i].area = None
                     THEN \* line 288: None has no strip()
                          ran @@ [err |-> "AssertionError: Invalid database structure!",
                                  value |-> <<>>]
                     ELSE ran @@ [err |-> NoErr,
                                  value |-> [i \in 1..Len(records) |->
                                              << records[i].osm_id,
                                                 strip(records[i].envelope[1]),
                                                 strip(records[i].area[1]) >>]]

\* ------------------------------------------------------------------ render()
\* A call ends outside the try block: the exception leaves render() at once.
Raise(e) == pc' = "done" /\ result' = e

PreconditionError == "AssertionError: At least an OSM ID or a bounding box must be provided!"
NotFoundError == "AssertionError: OSM ID not found in the database!"

\* The assertion of lines 340-341 compiled away.
precondition_unchecked(cfg) == TRUE

\* Lines 340-341: the condition of the assertion.
precondition(cfg) == TruthyInt(cfg.osmid) \/ TruthyObj(cfg.bounding_box)

\* Line 343 left out.
lower_formats_skipped(fmts) == fmts

\* The formats in lower case, in the opposite order.
lower_formats_reversed(fmts) ==
  [i \in 1..Len(fmts) |-> lower(fmts[Len(fmts) + 1 - i])]

\* Line 343: every format in lower case.
lower_formats(fmts) == [i \in 1..Len(fmts) |-> lower(fmts[i])]

\* Lines 351-354 with the IndexError of an empty answer not caught.
osmid_lookup_uncaught(r) ==
  IF r.err # NoErr THEN [err |-> r.err, info |-> None]
  ELSE IF r.value = <<>> THEN [err |-> "IndexError", info |-> None]
  ELSE [err |-> NoErr, info |-> Some(r.value[1])]

\* Lines 351-354: the first row of the resolver's answer; the IndexError of
\* an empty answer becomes the not-found AssertionError.
osmid_lookup(r) ==
  IF r.err # NoErr THEN [err |-> r.err, info |-> None]
  ELSE IF r.value = <<>> THEN [err |-> NotFoundError, info |-> None]
  ELSE [err |-> NoErr, info |-> Some(r.value[1])]

\* Lines 340-343: the assertion on the configuration, then the formats in
\* lower case.
Render ==
  /\ pc = "idle" /\ calls < MaxCalls
  /\ \E cfg \in RenderingConfiguration, fmts \in FormatLists :
       /\ calls' = calls + 1 /\ op' = "render"
       /\ arg' = cfg /\ config' = cfg /\ raw_formats' = fmts
       /\ IF precondition(cfg)
          THEN /\ output_formats' = lower_formats(fmts)
               /\ pc' = "i18n" /\ result' = NoErr
          ELSE /\ output_formats' = <<>>
               /\ Raise(PreconditionError)
  /\ UNCHANGED << aside, orchestrator, osmid_geo_info, tmpdir, workspace, renderer,
                  polygon, street_index, passes, files, pending, steps, logged >>

\* Lines 344-346: install the translation, set config.rtl.
InstallTranslation ==
  /\ pc = "i18n"
  /\ steps' = Append(steps, "install_translation")
  /\ \E ok \in BOOLEAN :
       IF ok
       THEN /\ i18n' = Some(config.language)
            /\ config' = [config EXCEPT !.rtl = Some(isrtl(config.language))]
            /\ pc' = "geo" /\ UNCHANGED result
       ELSE /\ Raise("IOError") /\ UNCHANGED << i18n, config >>
  /\ UNCHANGED << aside, parser, db, opened, queries, calls, op, arg, raw_formats,
                  output_formats, osmid_geo_info, tmpdir, workspace, renderer,
                  polygon, street_index, passes, files, pending, logged >>

\* Lines 357-358 with the envelope parsed whatever the configuration holds.
bounding_box_parsed(bounding_box, envelope) == Some(parse_wkt(envelope))

\* Lines 357-358: config.bounding_box, or else the parsed envelope.
bounding_box_or_envelope(bounding_box, envelope) ==
  IF TruthyObj(bounding_box) THEN bounding_box ELSE Some(parse_wkt(envelope))

\* Lines 351-358: the geographic information of config.osmid, its first row,
\* and the bounding box when none was given.
Resolve ==
  /\ pc = "geo"
  /\ \E outcome \in DbOutcomes, query_ok \in BOOLEAN :
       LET r == get_geographic_info(<<config.osmid>>, outcome, query_ok)
       IN /\ db' = r.db /\ opened' = r.opened /\ queries' = r.queries
          /\ steps' = steps \o r.steps
          /\ IF osmid_lookup(r).err # NoErr
             THEN /\ Raise(osmid_lookup(r).err)
                  /\ UNCHANGED << osmid_geo_info, config >>
             ELSE /\ osmid_geo_info' = osmid_lookup(r).info
                  /\ config' = [config EXCEPT !.bounding_box =
                                  bounding_box_or_envelope(config.bounding_box,
                                                           osmid_geo_info'[1][2])]
                  /\ pc' = "mkdtemp" /\ UNCHANGED result
  /\ UNCHANGED << aside, parser, i18n, calls, op, arg, raw_formats, output_formats, tmpdir,
                  workspace, renderer, polygon, street_index, passes, files,
                  pending, logged >>

\* Line 361: tempfile.mkdtemp().
Mkdtemp ==
  /\ pc = "mkdtemp"
  /\ steps' = Append(steps, "mkdtemp")
  /\ \E ok \in BOOLEAN :
       IF ok
       THEN /\ tmpdir' = Some(calls) /\ workspace' = "present"
            /\ pc' = "renderer" /\ UNCHANGED result
       ELSE /\ Raise("OSError") /\ UNCHANGED << tmpdir, workspace >>
  /\ UNCHANGED << aside, orchestrator, calls, op, arg, config, raw_formats, output_formats,
                  osmid_geo_info, renderer, polygon, street_index, passes,
                  files, pending, logged >>

\* Lines 364-365: the renderer class by name, and its instance.
InstantiateRenderer ==
  /\ pc = "renderer"
  /\ steps' = Append(steps, "renderer")
  /\ \E ok \in BOOLEAN :
       IF ok
       THEN /\ renderer' = [renderer EXCEPT !.instantiated = TRUE]
            /\ pc' = "canvas" /\ UNCHANGED result
       ELSE /\ Raise("LookupError") /\ UNCHANGED renderer
  /\ UNCHANGED << aside, orchestrator, calls, op, arg, config, raw_formats, output_formats,
                  osmid_geo_info, tmpdir, workspace, polygon, street_index,
                  passes, files, pending, logged >>

\* canvas.get_actual_bounding_box(): the requested box widened to the aspect
\* ratio of the page (a square page here), so that it may differ from it.
get_actual_bounding_box(b) ==
  LET side == IF b.maxx - b.minx > b.maxy - b.miny
              THEN b.maxx - b.minx ELSE b.maxy - b.miny
  IN BoundingBox(b.minx, b.miny, b.minx + side, b.miny + side)

\* Line 366: renderer.create_map_canvas().
CreateCanvas ==
  /\ pc = "canvas"
  /\ steps' = Append(steps, "create_map_canvas")
  /\ \E ok \in BOOLEAN :
       IF ok
       THEN /\ renderer' = [renderer EXCEPT
                 !.canvas = TRUE,
                 !.actual_bounding_box =
                    Some(get_actual_bounding_box(config.bounding_box[1]))]
            /\ pc' = "shade" /\ UNCHANGED result
       ELSE Raise("RendererError") /\ UNCHANGED renderer
  /\ UNCHANGED << aside, orchestrator, calls, op, arg, config, raw_formats, output_formats,
                  osmid_geo_info, tmpdir, workspace, polygon, street_index,
                  passes, files, pending, logged >>

\* The match of ^POLYGON\(\(([^)]*)\)\)$ on a WKT text ($ also matches before
\* a final newline): None, or the tokens of the group.
regexp_polygon_match(wkt) ==
  LET s == IF wkt # <<>> /\ wkt[Len(wkt)] = "\n"
           THEN SubSeq(wkt, 1, Len(wkt) - 1) ELSE wkt
      Matches(t) ==
        /\ Len(t) >= 5
        /\ t[1] = "POLYGON" /\ t[2] = "(" /\ t[3] = "("
        /\ t[Len(t) - 1] = ")" /\ t[Len(t)] = ")"
        /\ \A i \in 4..Len(t) - 2 : t[i] # ")"
  IN IF Matches(wkt) THEN Some(SubSeq(wkt, 4, Len(wkt) - 2))
     ELSE IF Matches(s) THEN Some(SubSeq(s, 4, Len(s) - 2))
     ELSE None

ShadeLog == "Administrative boundary looks invalid!"

\* _get_shade_wkt that leaves out the margin of line 302.
get_shade_wkt_unexpanded(bounding_box, wkt) ==
  LET matches == regexp_polygon_match(wkt)
  IN IF matches = None THEN None
     ELSE Some(<<"MULTIPOLYGON", "(", "(", "(">>
               \o as_wkt(bounding_box, FALSE)
               \o <<")", ")", ",", "(", "(">> \o matches[1] \o <<")", ")", ")">>)

\* _get_shade_wkt(bounding_box, polygon): None, or the shade multipolygon.
get_shade_wkt(bounding_box, wkt) ==
  LET matches == regexp_polygon_match(wkt)
  IN IF matches = None THEN None
     ELSE Some(<<"MULTIPOLYGON", "(", "(", "(">>
               \o as_wkt(create_expanded(bounding_box, 5, 5), FALSE)
               \o <<")", ")", ",", "(", "(">> \o matches[1] \o <<")", ")", ")">>)

\* Lines 368-376: the shade of the administrative boundary.
Shade ==
  /\ pc = "shade"
  /\ IF TruthyInt(config.osmid)
     THEN /\ polygon' = Some(osmid_geo_info[1][3])
          /\ IF TruthyStr(polygon')
             THEN LET shade_wkt == get_shade_wkt(renderer.actual_bounding_box[1],
                                                 polygon'[1])
                  IN /\ logged' = IF shade_wkt = None
                                  THEN logged \cup {ShadeLog} ELSE logged
                     /\ steps' = Append(steps, "render_shade")
                     /\ renderer' = [renderer EXCEPT
                                       !.shades = Append(@, shade_wkt)]
                     /\ \/ pc' = "composite" /\ UNCHANGED result
                        \/ Raise("RendererError")
             ELSE /\ pc' = "composite"
                  /\ UNCHANGED << result, renderer, steps, logged >>
     ELSE /\ polygon' = None /\ pc' = "composite"
          /\ UNCHANGED << result, renderer, steps, logged >>
  /\ UNCHANGED << aside, orchestrator, calls, op, arg, config, raw_formats, output_formats,
                  osmid_geo_info, tmpdir, workspace, street_index, passes,
                  files, pending >>

\* Line 378: renderer.canvas.render().
CanvasRender ==
  /\ pc = "composite"
  /\ steps' = Append(steps, "canvas.render")
  /\ \E ok \in BOOLEAN :
       IF ok
       THEN /\ renderer' = [renderer EXCEPT !.canvas_rendered = TRUE]
            /\ pc' = "index" /\ UNCHANGED result
       ELSE /\ Raise("RendererError") /\ UNCHANGED renderer
  /\ UNCHANGED << aside, orchestrator, calls, op, arg, config, raw_formats, output_formats,
                  osmid_geo_info, tmpdir, workspace, polygon, street_index,
                  passes, files, pending, logged >>

\* Lines 379-384: the street index, built over self._db, and its renderer.
BuildIndex ==
  /\ pc = "index"
  /\ \E outcome \in DbOutcomes, ok \in BOOLEAN :
       LET got == get_db(outcome)
       IN /\ db' = got.db /\ opened' = got.opened
          /\ IF got.err # NoErr
             THEN /\ Raise(got.err) /\ steps' = steps \o got.steps
                  /\ UNCHANGED << queries, street_index >>
             ELSE /\ queries' = queries \cup {got.conn[1]}
                  /\ steps' = steps \o got.steps \o <<"StreetIndex">>
                  /\ IF ok
                     THEN /\ street_index' =
                               Some([osmid |-> config.osmid,
                                     bounding_box |-> renderer.actual_bounding_box,
                                     polygon |-> polygon])
                          /\ pc' = "output" /\ UNCHANGED result
                     ELSE Raise("DatabaseError") /\ UNCHANGED street_index
  /\ UNCHANGED << aside, parser, i18n, calls, op, arg, config, raw_formats, output_formats,
                  osmid_geo_info, tmpdir, workspace, renderer, polygon, passes,
                  files, pending, logged >>

\* ------------------------------------------------------------ _render_one()
UnsupportedFormatError == "ValueError: Unsupported output format"
SupportedFormats ==
  { <<"p","n","g">>, <<"s","v","g">>, <<"s","v","g","z">>, <<"p","d","f">>,
    <<"p","s">>, <<"c","s","v">> }

\* Lines 403-427 without the branch of lines 421-423.
surface_kind_csv_missing(output_format) ==
  CASE output_format = <<"p","n","g">>     -> "ImageSurface"
    [] output_format = <<"s","v","g">>     -> "SVGSurface"
    [] output_format = <<"s","v","g","z">> -> "SVGSurface(GzipFile)"
    [] output_format = <<"p","d","f">>     -> "PDFSurface"
    [] output_format = <<"p","s">>         -> "PSSurface"
    [] OTHER                               -> "unsupported"

\* Lines 403-427: the kind of surface the factory of a format builds; "return"
\* for the format that is not rendered, "unsupported" for the else branch.
surface_kind(output_format) ==
  CASE output_format = <<"p","n","g">>     -> "ImageSurface"
    [] output_format = <<"s","v","g">>     -> "SVGSurface"
    [] output_format = <<"s","v","g","z">> -> "SVGSurface(GzipFile)"
    [] output_format = <<"p","d","f">>     -> "PDFSurface"
    [] output_format = <<"p","s">>         -> "PSSurface"
    [] output_format = <<"c","s","v">>     -> "return"
    [] OTHER                               -> "unsupported"

\* What cairo and the layout renderer may do during one pass.
PassOutcomes == {"ok", "factory_fails", "create_rendering_session_fails",
                 "render_fails", "write_to_png_fails", "finish_fails"}

\* _render_one(renderer, street_index_renderer, filename, output_format): the
\* calls made in order, the state the pass leaves the file in ("" when it does
\* not touch it) and the exception raised.
render_one(output_format, outcome) ==
  LET kind == surface_kind(output_format)
      p0 == [format |-> output_format, surface |-> "", dpi |-> PT_PER_INCH,
             events |-> <<>>, file |-> "", err |-> NoErr]
  IN IF kind = "unsupported" THEN [p0 EXCEPT !.err = UnsupportedFormatError]
     ELSE IF kind = "return" THEN p0
     ELSE IF /\ kind = "ImageSurface" /\ parser.png_dpi # None
             /\ int(parser.png_dpi[1]) = None
     THEN \* line 405: only NoOptionError is caught
          [p0 EXCEPT !.err = "ValueError: invalid literal for int()"]
     ELSE
     LET p1 == [p0 EXCEPT !.dpi =
                  IF kind # "ImageSurface" THEN PT_PER_INCH
                  ELSE IF parser.png_dpi = None THEN DEFAULT_RENDERING_PNG_DPI
                  ELSE int(parser.png_dpi[1])[1]]
         p2 == [p1 EXCEPT !.surface = kind, !.events = <<"surface">>,
                          !.file = IF kind = "ImageSurface" THEN "" ELSE "partial"]
         p3 == [p2 EXCEPT !.events = Append(@, "create_rendering_session")]
         p4 == [p3 EXCEPT !.events = Append(@, "render")]
         p5 == IF kind = "ImageSurface"
               THEN [p4 EXCEPT !.events = Append(@, "write_to_png"),
                               !.file = "complete"]
               ELSE p4
     IN IF outcome = "factory_fails" THEN [p1 EXCEPT !.err = "cairo.Error"]
        ELSE IF outcome = "create_rendering_session_fails"
        THEN [p2 EXCEPT !.err = "RendererError"]
        ELSE IF outcome = "render_fails" THEN [p3 EXCEPT !.err = "RendererError"]
        ELSE IF outcome = "write_to_png_fails" /\ kind = "ImageSurface"
        THEN [p4 EXCEPT !.err = "IOError"]
        ELSE IF outcome = "finish_fails" THEN [p5 EXCEPT !.err = "cairo.Error"]
        ELSE [p5 EXCEPT !.events = Append(@, "finish"), !.file = "complete"]

\* The files on disk after a pass: <file_prefix>.<format> in its new state.
written(fs, p) ==
  IF p.file = "" THEN fs
  ELSE { f \in fs : f.name # p.format } \cup {[name |-> p.format, state |-> p.file]}

\* Lines 386-390: the loop over output_formats inside the try block; an
\* exception of a pass leaves the loop for the finally clause.
OutputPass ==
  /\ pc = "output"
  /\ IF Len(passes) < Len(output_formats)
     THEN \E outcome \in PassOutcomes :
            LET p == render_one(output_formats[Len(passes) + 1], outcome)
            IN /\ passes' = Append(passes, p)
               /\ files' = written(files, p)
               /\ IF p.err # NoErr
                  THEN pending' = p.err /\ pc' = "cleanup"
                  ELSE UNCHANGED << pending, pc >>
     ELSE pc' = "cleanup" /\ UNCHANGED << passes, files, pending >>
  /\ UNCHANGED << aside, orchestrator, calls, op, arg, config, raw_formats, output_formats,
                  osmid_geo_info, tmpdir, workspace, renderer, polygon,
                  street_index, result, steps, logged >>

\* _cleanup_tempdir(tmpdir): every file and directory under tmpdir removed,
\* then tmpdir itself; os.remove() and os.rmdir() may fail.
cleanup_tempdir(ok) ==
  IF ok THEN [workspace |-> "absent", err |-> NoErr]
  ELSE [workspace |-> "present", err |-> "OSError"]

\* Lines 393-394: the finally clause.  An exception raised in it replaces the
\* one in flight.
Cleanup ==
  /\ pc = "cleanup"
  /\ steps' = Append(steps, "cleanup")
  /\ \E ok \in BOOLEAN :
       LET c == cleanup_tempdir(ok)
       IN /\ workspace' = c.workspace
          /\ result' = IF c.err # NoErr THEN c.err
                       ELSE IF pending # NoErr THEN pending ELSE "ok"
  /\ pc' = "done"
  /\ UNCHANGED << aside, orchestrator, calls, op, arg, config, raw_formats, output_formats,
                  osmid_geo_info, tmpdir, renderer, polygon, street_index,
                  passes, files, pending, logged >>

\* The caller has the result of the call; the instance is free for the next.
Return ==
  /\ pc = "done"
  /\ pc' = "idle" /\ op' = ""
  /\ arg' = NoConfig /\ config' = NoConfig
  /\ raw_formats' = <<>> /\ output_formats' = <<>>
  /\ osmid_geo_info' = None /\ tmpdir' = None /\ workspace' = "absent"
  /\ renderer' = NoRenderer /\ polygon' = None /\ street_index' = None
  /\ passes' = <<>> /\ files' = {} /\ pending' = NoErr /\ result' = NoErr
  /\ steps' = <<>> /\ logged' = {}
  /\ UNCHANGED << aside, orchestrator, calls >>

\* A direct call of get_geographic_info(osmids).
OsmIdLists == { <<Some(1)>>, <<Some(2)>>, <<Some(3), Some(4)>> }
GetGeographicInfo ==
  /\ pc = "idle" /\ calls < MaxCalls
  /\ calls' = calls + 1 /\ op' = "get_geographic_info"
  /\ \E osmids \in OsmIdLists, outcome \in DbOutcomes, query_ok \in BOOLEAN :
       LET r == get_geographic_info(osmids, outcome, query_ok)
       IN /\ db' = r.db /\ opened' = r.opened /\ queries' = r.queries
          /\ steps' = r.steps
          /\ pc' = "done"
          /\ result' = IF r.err # NoErr THEN r.err ELSE "ok"
  /\ UNCHANGED << aside, parser, i18n, arg, config, raw_formats, output_formats,
                  osmid_geo_info, tmpdir, workspace, renderer, polygon,
                  street_index, passes, files, pending, logged >>

Next ==
  \/ Render \/ InstallTranslation \/ Resolve \/ Mkdtemp \/ InstantiateRenderer
  \/ CreateCanvas \/ Shade \/ CanvasRender \/ BuildIndex \/ OutputPass
  \/ Cleanup \/ Return \/ GetGeographicInfo

Spec == Init /\ [][Next]_vars

\* ------------------------------------------- _get_db() called concurrently
\* Several render() calls run in threads of one process on one instance; each
\* reaches self._db at line 279.  _get_db() takes no lock, so its statements
\* interleave: one action per statement that reads or writes shared state.
call_state == << i18n, calls, op, pc, call_locals >>

\* Line 222: the test of self.__db, and the return of the cached connection.
T_Test(t) ==
  /\ threads[t].pc = "test"
  /\ threads' = [threads EXCEPT ![t] =
        IF db # None THEN [pc |-> "query", conn |-> db]
        ELSE [pc |-> "connect", conn |-> None]]
  /\ UNCHANGED << parser, db, opened, queries, call_state, registry, lookups >>

\* Lines 230-233: psycopg2.connect().
T_Connect(t) ==
  /\ threads[t].pc = "connect"
  /\ \E ok \in BOOLEAN :
       IF ok
       THEN /\ opened' = opened + 1
            /\ threads' = [threads EXCEPT ![t] =
                  [pc |-> "set_client_encoding",
                   conn |-> Some([id |-> opened + 1, client_encoding |-> "default",
                                  statement_timeout |-> 0 - 1])]]
       ELSE /\ threads' = [threads EXCEPT ![t].pc = "raised"]
            /\ UNCHANGED opened
  /\ UNCHANGED << parser, db, queries, call_state, registry, lookups >>

\* Line 237: db.set_client_encoding('utf8').
T_SetClientEncoding(t) ==
  /\ threads[t].pc = "set_client_encoding"
  /\ \E ok \in BOOLEAN :
       threads' = [threads EXCEPT ![t] =
         IF ok
         THEN [pc |-> "set_request_timeout",
               conn |-> Some([threads[t].conn[1] EXCEPT !.client_encoding = "utf8"])]
         ELSE [pc |-> "raised", conn |-> None]]
  /\ UNCHANGED << parser, db, opened, queries, call_state, registry, lookups >>

\* Lines 239-243: the timeout of the configuration set on the new connection.
T_SetRequestTimeout(t) ==
  /\ threads[t].pc = "set_request_timeout"
  /\ \E ok \in BOOLEAN :
       threads' = [threads EXCEPT ![t] =
         IF ok
         THEN [pc |-> "cache",
               conn |-> Some(set_request_timeout(threads[t].conn[1], request_timeout))]
         ELSE [pc |-> "raised", conn |-> None]]
  /\ UNCHANGED << parser, db, opened, queries, call_state, registry, lookups >>

\* Lines 245-246: self.__db = db; return self.__db.
T_Cache(t) ==
  /\ threads[t].pc = "cache"
  /\ db' = threads[t].conn
  /\ threads' = [threads EXCEPT ![t].pc = "query"]
  /\ UNCHANGED << parser, opened, queries, call_state, registry, lookups >>

\* Lines 279-285: the query of the caller on the connection _get_db() returned.
T_Query(t) ==
  /\ threads[t].pc = "query"
  /\ queries' = queries \cup {threads[t].conn[1]}
  /\ threads' = [threads EXCEPT ![t].pc = "done"]
  /\ UNCHANGED << parser, db, opened, call_state, registry, lookups >>

ThreadInit ==
  /\ parser \in ConfigFiles
  /\ db = None /\ opened = 0 /\ queries = {} /\ i18n = None
  /\ calls = 0 /\ op = "" /\ pc = "idle"
  /\ Fresh
  /\ threads = [t \in Threads |-> [pc |-> "test", conn |-> None]]
  /\ registry = create_all_from_config(parser).styles /\ lookups = <<>>

ThreadNext ==
  \E t \in Threads :
    \/ T_Test(t) \/ T_Connect(t) \/ T_SetClientEncoding(t)
    \/ T_SetRequestTimeout(t) \/ T_Cache(t) \/ T_Query(t)

SpecThreads == ThreadInit /\ [][ThreadNext]_vars

\* ------------------------------------------------------ stylesheet registry
LookupError == "LookupError: The requested stylesheet was not found!"

\* get_stylesheet_by_name(name) that keeps searching after a match.
get_stylesheet_by_name_last(name) ==
  LET hits == { i \in 1..Len(registry) : registry[i].name = name }
  IN IF hits = {} THEN [name |-> name, style |-> None, err |-> LookupError]
     ELSE [name |-> name, err |-> NoErr,
           style |-> Some(registry[CHOOSE i \in hits : \A j \in hits : j <= i])]

\* get_stylesheet_by_name(name): the loop of lines 314-316 returns at the
\* first style of that name; line 317 raises when the loop ends.
RECURSIVE search(_, _)
search(styles, name) ==
  IF styles = <<>> THEN [name |-> name, style |-> None, err |-> LookupError]
  ELSE IF styles[1].name = name
  THEN [name |-> name, style |-> Some(styles[1]), err |-> NoErr]
  ELSE search(Tail(styles), name)
get_stylesheet_by_name(name) == search(registry, name)

StyleNames == {"Default", "Alt", "Zoomed", ""}

\* OCitySMap.__init__, lines 217-219: the registry read from the
\* configuration; an exception leaves the constructor.
Construct ==
  /\ pc = "construct"
  /\ LET made == create_all_from_config(parser)
     IN /\ registry' = made.styles
        /\ IF made.err = NoErr
           THEN pc' = "idle" /\ UNCHANGED result
           ELSE Raise(made.err)
  /\ UNCHANGED << parser, db, opened, queries, i18n, calls, op, arg, config,
                  raw_formats, output_formats, osmid_geo_info, tmpdir, workspace,
                  renderer, polygon, street_index, passes, files, pending,
                  steps, logged, threads, lookups >>

\* A call of get_stylesheet_by_name(name).
GetStylesheetByName ==
  /\ pc = "idle" /\ Len(lookups) < MaxLookups
  /\ \E name \in StyleNames :
       lookups' = Append(lookups, get_stylesheet_by_name(name))
  /\ UNCHANGED << parser, db, opened, queries, call_state, threads, registry >>

StyleInit ==
  /\ parser \in StyleConfigFiles
  /\ db = None /\ opened = 0 /\ queries = {} /\ i18n = None
  /\ calls = 0 /\ op = "" /\ pc = "construct"
  /\ Fresh
  /\ threads = [t \in Threads |-> NoThread]
  /\ registry = <<>> /\ lookups = <<>>

StyleNext == Construct \/ GetStylesheetByName

SpecStyles == StyleInit /\ [][StyleNext]_vars

\* ------------------------------------------------- the shade, on any input
\* render() at line 368 over a range of canvas boxes and administrative
\* polygons, as the renderer and the database may deliver them.
Ring3 == <<"4 4", ",", " ", "8 4", ",", " ", "4 8", ",", " ", "4 4">>
ShadeRings == {Ring1, Ring2, Ring3, <<>>}
ShadeBoxes ==
  { BoundingBox(x, y, x + w, y + h) : x \in {0, 4}, y \in {0, 4}, w \in {20, 40},
                                      h \in {20, 40} }
Polygon(ring) == <<"POLYGON", "(", "(">> \o ring \o <<")", ")">>
ShadePolygons ==
  { Polygon(ring) : ring \in ShadeRings }
    \cup { <<"POLYGON", "(", "(">> \o Ring1 \o <<")", ",", "(">> \o Ring2 \o <<")", ")">>,
           <<"MULTIPOLYGON", "(", "(", "(">> \o Ring1 \o <<")", ")", ")">>,
           <<"POLYGON", "(", "(">> \o Ring2 \o <<")", ")", "\n">> }

ShadeInit ==
  /\ parser \in ConfigFiles
  /\ db = Some(set_request_timeout([id |-> 1, client_encoding |-> "utf8",
                                    statement_timeout |-> 0 - 1], request_timeout))
  /\ opened = 1 /\ queries = {db[1]} /\ i18n = Some("ar")
  /\ calls = 1 /\ op = "render" /\ pc = "shade"
  /\ \E b \in ShadeBoxes, area \in ShadePolygons :
       /\ arg = [osmid |-> Some(1), bounding_box |-> Some(b), language |-> "ar",
                 rtl |-> None]
       /\ config = [arg EXCEPT !.rtl = Some(TRUE)]
       /\ osmid_geo_info = Some(<<1, as_wkt(b, TRUE), area>>)
       /\ renderer = [NoRenderer EXCEPT !.instantiated = TRUE, !.canvas = TRUE,
                                        !.actual_bounding_box = Some(b)]
  /\ raw_formats = <<>> /\ output_formats = <<>>
  /\ tmpdir = Some(1) /\ workspace = "present"
  /\ polygon = None /\ street_index = None
  /\ passes = <<>> /\ files = {} /\ pending = NoErr /\ result = NoErr
  /\ steps = <<"install_translation", "connect", "query", "mkdtemp", "renderer",
               "create_map_canvas">>
  /\ logged = {}
  /\ threads = [t \in Threads |-> NoThread]
  /\ registry = create_all_from_config(parser).styles /\ lookups = <<>>

ShadeNext == Shade

SpecShade == ShadeInit /\ [][ShadeNext]_vars

\* =================================================================== claims
InRender == op = "render"
Ended == InRender /\ pc = "done"
Range(q) == { q[i] : i \in 1..Len(q) }
InvalidDatabase == "AssertionError: Invalid database structure!"
\* The rows of the table with a given osm_id.
RowsOf(o) == { r \in Range(planet_osm_polygon) : o # None /\ r.osm_id = o[1] }

\* C1: once render() has created the temporary workspace, no terminal state
\* of that call has the workspace still on disk, whichever step failed.
C1_WorkspaceGoneAtEveryExit ==
  (Ended /\ tmpdir # None) => workspace = "absent"

\* C2: a call with an explicit bounding box and no area id passes step 1: once
\* its translation is installed it reaches the workspace with its bounding box
\* unchanged, asks for no shade, and does not fail on the absent area id.
C2_BoundingBoxOnlyPassesStep1 ==
  (Ended /\ arg.osmid = None /\ arg.bounding_box # None /\ config.rtl # None)
    => /\ result # "TypeError"
       /\ "mkdtemp" \in Range(steps)
       /\ config.bounding_box = arg.bounding_box
       /\ renderer.shades = <<>>

\* C3: when the area id has a row whose administrative polygon is null, the
\* resolver returns its entry and the call goes on without shade: it does not
\* fail on the null polygon.
C3_NullPolygonIsNoError ==
  (Ended /\ \E r \in RowsOf(arg.osmid) : r.area = None)
    => result # InvalidDatabase

\* C4: when the area id has no row in the database, render() never gets past
\* step 1: no workspace, no renderer, no output pass and no file; and when
\* the query itself ran, the call fails with the not-found error.
C4_UnknownAreaIsFatal ==
  (InRender /\ arg.osmid # None /\ RowsOf(arg.osmid) = {})
    => /\ pc \in {"i18n", "geo", "done"}
       /\ tmpdir = None /\ workspace = "absent"
       /\ ~renderer.instantiated /\ "renderer" \notin Range(steps)
       /\ passes = <<>> /\ files = {}
       /\ (pc = "done" /\ steps # <<>> /\ steps[Len(steps)] = "query"
             /\ result # "DatabaseError")
            => result = NotFoundError
C4_Witness ==
  /\ Ended /\ result = NotFoundError /\ arg.bounding_box # None
  /\ raw_formats # <<>> /\ files = {} /\ tmpdir = None

\* C5: when the pass of the k-th format fails, no later format is attempted,
\* the files of the formats before k stay complete on disk, the workspace is
\* cleaned up, and that failure is what render() raises.
C5_FailedPassAbortsTheRest ==
  (Ended /\ pending # NoErr)
    => /\ passes # <<>> /\ passes[Len(passes)].err = pending
       /\ \A i \in 1..Len(passes) - 1 :
            /\ passes[i].err = NoErr
            /\ passes[i].file # ""
                 => [name |-> passes[i].format, state |-> "complete"] \in files
       /\ workspace = "absent"
       /\ result = pending

\* C6: a render call that returns successfully has left exactly one complete
\* file <prefix>.<format> for every requested format.
C6_OneFilePerRequestedFormat ==
  (Ended /\ result = "ok")
    => { f.name : f \in { g \in files : g.state = "complete" } }
         = Range(output_formats)

\* C7: format selection is case-insensitive and closed: a pass for a string
\* that is one of png, svg, svgz, pdf, ps, csv in any letter case does not
\* raise the unsupported-format error; a pass for any other string raises it
\* and creates no surface.  The same holds of the dispatch for every string
\* of FormatCases.
SameLetter(a, b) ==
  a = b \/ \E i \in 1..Len(Upper) : {a, b} = {Upper[i], LowerOf[i]}
NamesSupported(raw) ==
  \E f \in SupportedFormats :
    Len(f) = Len(raw) /\ \A i \in 1..Len(f) : SameLetter(f[i], raw[i])
FormatCases ==
  SupportedFormats \cup FormatStrings \cup
  { <<"P","S">>, <<"s","V","g">>, <<"S","V","G","Z">>, <<"C","s","v">>,
    <<"p","n","g"," ">>, <<"p","n">>, <<"t","i","f","f">>, <<>>, <<"J","P","G">> }
C7_FormatSelectionIsClosed ==
  /\ \A i \in 1..Len(passes) :
       IF NamesSupported(raw_formats[i])
       THEN passes[i].err # UnsupportedFormatError
       ELSE /\ passes[i].err = UnsupportedFormatError
            /\ passes[i].surface = "" /\ passes[i].events = <<>>
            /\ passes[i].file = ""
  /\ \A raw \in FormatCases :
       NamesSupported(raw) <=> surface_kind(lower_formats(<<raw>>)[1]) # "unsupported"
C7_Witness ==
  /\ Len(passes) = 2
  /\ raw_formats[1] # output_formats[1]
  /\ passes[1].surface # "" /\ passes[1].err = NoErr
  /\ passes[2].err = UnsupportedFormatError

\* C8: a render call with neither an area id nor a bounding box fails with
\* the precondition error before any other effect: no external call is made
\* (no locale installed, no query, no workspace), the configuration is as the
\* caller passed it, and no pass runs and no file is written.
C8_PreconditionComesFirst ==
  (InRender /\ arg.osmid = None /\ arg.bounding_box = None)
    => /\ pc = "done" /\ result = PreconditionError
       /\ steps = <<>> /\ config = arg
       /\ tmpdir = None /\ workspace = "absent"
       /\ passes = <<>> /\ files = {}
C8_Witness ==
  /\ Ended /\ result = PreconditionError /\ raw_formats # <<>>
  /\ calls = 2 /\ db # None /\ i18n # None

\* C9: when an output pass has failed and the cleanup of the workspace fails
\* too, render() raises the error of the pass, not that of the cleanup.
C9_CleanupNeverMasksThePassError ==
  (Ended /\ pending # NoErr) => result = pending

\* C10: the connection is created on first use and then reused: once one is
\* cached no further connection is opened, every query has run on the cached
\* connection, and that connection had the utf8 encoding and the statement
\* timeout (the configured minutes, 15 when missing or not an integer) set.
ConfiguredMinutes ==
  IF parser.request_timeout = Some(<<"2","0">>) THEN 20 ELSE 15
C10_ConnectionCreatedOnceAndConfigured ==
  /\ db # None =>
       /\ opened = db[1].id
       /\ db[1].client_encoding = "utf8"
       /\ db[1].statement_timeout = ConfiguredMinutes * 60000
  /\ \A q \in queries : db # None /\ q = db[1]
  /\ db = None => queries = {}
C10_Witness ==
  /\ calls = 2 /\ pc = "done" /\ db # None
  /\ steps # <<>> /\ "query" \in Range(steps) /\ "connect" \notin Range(steps)
  /\ opened = 1 /\ queries = {db[1]}

\* C11: under every interleaving of the first accesses of concurrent render
\* calls, the shared connection is established and configured at most once,
\* and all calls use that same connection.
ConfiguredConnections ==
  { threads[t].conn[1].id :
      t \in { u \in Threads : /\ threads[u].conn # None
                             /\ threads[u].conn[1].statement_timeout # 0 - 1 } }
C11_ConnectionEstablishedOnce ==
  /\ Cardinality(ConfiguredConnections) <= 1
  /\ \A q1, q2 \in queries : q1.id = q2.id
  /\ \A t \in Threads : threads[t].pc = "done" => threads[t].conn = db

\* C12: a lookup by name returns the first-registered stylesheet of that
\* name, also when several share it, fails with the not-found error when
\* none has it, and leaves the registry as it was loaded.
C12_FirstMatchWins ==
  /\ \A k \in 1..Len(lookups) :
       LET l    == lookups[k]
           hits == { i \in 1..Len(registry) : registry[i].name = l.name }
       IN IF hits = {} THEN l.err = LookupError /\ l.style = None
          ELSE /\ l.err = NoErr
               /\ l.style = Some(registry[CHOOSE i \in hits : \A j \in hits : i <= j])
  /\ pc = "idle" => registry = create_all_from_config(parser).styles
C12_Witness ==
  /\ Len(lookups) = 2
  /\ Len(registry) = 3 /\ registry[1].name = "Alt"
  /\ registry[2].name = "Default" /\ registry[3].name = "Default"
  /\ lookups[1].name = "Default" /\ lookups[1].style = Some(registry[2])
  /\ registry[2] # registry[3]
  /\ lookups[2].err = LookupError

\* C13: loading the registry fails with the configuration error, the same in
\* both cases, when the stylesheet list is absent and when it is empty;
\* when it succeeds the registry holds one Stylesheet per listed section
\* name, in list order.
Listed == split(parser.available_stylesheets[1])
C13_LoadFailsAlike ==
  /\ (pc # "construct" /\ parser.available_stylesheets \in {None, Some(<<>>)})
       => pc = "done" /\ result = StylesheetError
  /\ pc = "idle"
       => /\ Len(registry) = Len(Listed)
          /\ \A i \in 1..Len(registry) :
               \E x \in Sections : /\ x.section = Listed[i]
                                   /\ registry[i].name = x.name[1]
                                   /\ registry[i].path = x.path[1]

\* C14: within one render call the steps occur in the fixed order geometry
\* resolution, workspace creation, renderer and canvas, optional shade,
\* compositing, street index, the passes in the order of the caller's format
\* list, cleanup; no pass starts before the index is built, and no step but
\* the pass is executed twice.
StepOrder ==
  << "install_translation", "connect", "query", "mkdtemp", "renderer",
     "create_map_canvas", "render_shade", "canvas.render", "StreetIndex",
     "cleanup" >>
Rank(step) == CHOOSE k \in 1..Len(StepOrder) : StepOrder[k] = step
SameText(a, b) ==
  Len(a) = Len(b) /\ \A i \in 1..Len(a) : SameLetter(a[i], b[i])
StepsInOrder(q) ==
  /\ \A i \in 1..Len(q) : q[i] \in Range(StepOrder)
  /\ \A i, j \in 1..Len(q) : i < j => Rank(q[i]) < Rank(q[j])
C14_StepsInFixedOrder ==
  [][ InRender' =>
        /\ StepsInOrder(steps')
        /\ \A i \in 1..Len(passes') :
             SameText(passes'[i].format, raw_formats'[i])
        /\ Len(passes') > Len(passes) =>
             /\ Len(passes') = Len(passes) + 1
             /\ steps # <<>> /\ steps[Len(steps)] = "StreetIndex"
             /\ street_index # None /\ steps' = steps
        /\ (steps' # steps /\ steps' # <<>> /\ steps'[Len(steps')] = "cleanup") =>
             /\ pc' = "done" /\ passes' = passes
             /\ "StreetIndex" \in Range(steps)
    ]_vars
C14_Witness ==
  /\ Ended /\ Len(steps) = Len(StepOrder)
  /\ Len(passes) = 2 /\ passes[1].err = NoErr /\ passes[2].err = NoErr

\* C15: render_shade is invoked only with a shade region that was computed:
\* when the polygon is not a bare single-ring POLYGON((...)) the shade
\* computation returns None without raising, render_shade is not invoked and
\* the call continues to the compositing of the canvas.
C15_ShadeOnlyWhenComputed ==
  InRender =>
    /\ \A i \in 1..Len(renderer.shades) : renderer.shades[i] # None
    /\ (polygon # None /\ TruthyStr(polygon) /\ regexp_polygon_match(polygon[1]) = None)
         => /\ "render_shade" \notin Range(steps)
            /\ pc # "done" \/ "canvas.render" \in Range(steps)

\* C16: for every bounding box and every well-formed single-ring polygon
\* POLYGON((R)) the shade is a multipolygon of exactly two rings: the first is
\* the box expanded by 5% on both axes, the second is R unchanged; the box
\* itself is not modified.
Expanded5(b) ==
  BoundingBox(b.minx - (b.maxx - b.minx) \div 20, b.miny - (b.maxy - b.miny) \div 20,
              b.maxx + (b.maxx - b.minx) \div 20, b.maxy + (b.maxy - b.miny) \div 20)
Corners(b) ==
  { PointStr(x, y) : x \in {b.minx, b.maxx}, y \in {b.miny, b.maxy} }
\* The rings of a MULTIPOLYGON(((..)),((..))) text: the token runs between
\* "((" and "))" .
RingStarts(w) == { i \in 2..Len(w) : w[i] = "(" /\ w[i - 1] = "(" /\ w[i + 1] # "(" }
RingOf(w, i) ==
  SubSeq(w, i + 1, (CHOOSE j \in i + 1..Len(w) :
                      /\ w[j] = ")" /\ \A k \in i + 1..j - 1 : w[k] # ")") - 1)
C16_ShadeIsExpandedBoxAndRing ==
  \A ring \in ShadeRings :
    (/\ InRender /\ pc # "shade"
     /\ polygon = Some(Polygon(ring)))
      => /\ Len(renderer.shades) = 1 /\ renderer.shades[1] # None
         /\ LET w      == renderer.shades[1][1]
                starts == RingStarts(w)
                first  == CHOOSE i \in starts : \A j \in starts : i <= j
                second == CHOOSE i \in starts : \A j \in starts : j <= i
            IN /\ w[1] = "MULTIPOLYGON"
               /\ Cardinality(starts) = 2
               /\ Range(RingOf(w, first)) \ {","} = Corners(Expanded5(arg.bounding_box[1]))
               /\ RingOf(w, first)[1] = RingOf(w, first)[Len(RingOf(w, first))]
               /\ RingOf(w, second) = ring
         /\ renderer.actual_bounding_box = arg.bounding_box
         /\ config.bounding_box = arg.bounding_box
C16_Witness ==
  /\ InRender /\ pc = "composite"
  /\ arg.bounding_box = Some(BoundingBox(4, 4, 24, 44))
  /\ polygon = Some(Polygon(Ring3))
  /\ renderer.shades =
       << Some(<<"MULTIPOLYGON", "(", "(", "(",
                 "3 2", ",", "3 46", ",", "25 46", ",", "25 2", ",", "3 2",
                 ")", ")", ",", "(", "(">> \o Ring3 \o <<")", ")", ")">>) >>

\* C17: every graphical pass creates its own surface and rendering session,
\* and every surface a pass created is finalized exactly once before the next
\* pass starts or the call ends; in the raster pass the pixel buffer is
\* written after the composite draw and before the finalization.
Count(q, x) == Cardinality({ k \in 1..Len(q) : q[k] = x })
Index(q, x) == CHOOSE k \in 1..Len(q) : q[k] = x
C17_EverySurfaceFinalizedOnce ==
  InRender =>
    \A i \in 1..Len(passes) :
      LET e == passes[i].events
      IN Count(e, "surface") > 0 =>
           /\ Count(e, "surface") = 1 /\ Count(e, "create_rendering_session") = 1
           /\ Count(e, "finish") = 1 /\ e[Len(e)] = "finish"
           /\ passes[i].format = <<"p","n","g">> =>
                /\ Count(e, "write_to_png") = 1
                /\ Index(e, "render") < Index(e, "write_to_png")
                /\ Index(e, "write_to_png") < Index(e, "finish")

\* C18: a pass for the csv format creates no surface, opens no rendering
\* session and never invokes the composite draw; it leaves the renderer and
\* the results of the earlier passes unchanged, and the loop goes on with the
\* later formats.
CsvFormat == <<"c","s","v">>
C18_CsvPassTouchesNothing ==
  [][ (/\ InRender /\ pc = "output" /\ Len(passes) < Len(output_formats)
       /\ output_formats[Len(passes) + 1] = CsvFormat)
        => /\ Len(passes') = Len(passes) + 1
           /\ SubSeq(passes', 1, Len(passes)) = passes
           /\ passes'[Len(passes')].events = <<>>
           /\ passes'[Len(passes')].surface = ""
           /\ passes'[Len(passes')].err = NoErr
           /\ renderer' = renderer /\ files' = files /\ street_index' = street_index
           /\ pending' = pending /\ pc' = "output" /\ result' = result
    ]_vars
C18_Witness ==
  /\ InRender /\ Len(passes) = 2
  /\ passes[1].format = CsvFormat /\ passes[1].events = <<>>
  /\ passes[2].format = <<"p","d","f">> /\ passes[2].err = NoErr
  /\ Count(passes[2].events, "finish") = 1
  /\ files = {[name |-> <<"p","d","f">>, state |-> "complete"]}

\* C19: the bounding box of the configuration is derived from the envelope
\* only when none was supplied: with an area id and an explicit box, step 1
\* leaves the box as it is; with the area id alone, the box after step 1 is
\* the rectangle of the envelope of that id.
EnvelopeBox(osm_id) ==
  CASE osm_id = 1 -> Box1
    [] osm_id = 4 -> Box1
    [] osm_id = 0 -> Box2
    [] osm_id = 2 -> Box2
C19_BoundingBoxDerivedOnlyWhenAbsent ==
  (InRender /\ arg.osmid # None)
    => IF arg.bounding_box # None \/ osmid_geo_info = None
       THEN config.bounding_box = arg.bounding_box
       ELSE config.bounding_box = Some(EnvelopeBox(arg.osmid[1]))
C19_Witness ==
  /\ InRender /\ pc = "mkdtemp"
  /\ arg.osmid = Some(1) /\ arg.bounding_box = Some(Box2)
  /\ osmid_geo_info # None /\ parse_wkt(osmid_geo_info[1][2]) = Box1
  /\ config.bounding_box = Some(Box2)

====
